---- MODULE Spec2Model ----
(***************************************************************************)
(* Resumable embedding ingestion of kurly/initial: the pipeline driver     *)
(* (initial_embedding.py: process_products, process_reviews, main) and the *)
(* recovery driver (retry_failed_embeddings.py: main), with the checkpoint *)
(* file, the failure ledger file and the vector index they share.          *)
(***************************************************************************)
EXTENDS Integers, Sequences, FiniteSets, TLC

\* ---------------------------------------------------------------- bounds
\* rows of kurly_skin_products / kurly_skin_reviews; ids are 10, 20, 30, ...
NumProducts == 3
NumReviews == 3
\* driver runs (process_products, process_reviews, the recovery loop) in one
\* behaviour
MaxRuns == 2
\* rows of the two tables, and failed rows in a run, where the periodic flush
\* of the checkpoint is followed (one row more than the flush period)
CadenceProducts == 11
CadenceReviews == 51
CadenceFaults == 1

\* ------------------------------------------------------ program constants
ReviewOffset == 10000000
ProductFlushEvery == 10
ReviewFlushEvery == 50
EmbedRetry == 3
QdrantRetry == 3

\* ------------------------------------------------------------ value sets
None == "None"

ProductIds == {10 * i : i \in 1..NumProducts}
ReviewIds == {10 * i : i \in 1..NumReviews}

\* product_no column of the first product: its own number, the number of
\* product 20, a number inside the review range of point ids, or text that
\* int() rejects
ProductNos ==
    { [numeric |-> TRUE, val |-> 10],
      [numeric |-> TRUE, val |-> 20],
      [numeric |-> TRUE, val |-> ReviewOffset + 10],
      [numeric |-> FALSE, val |-> 0] }

\* contents column: NULL or '', whitespace only, text
ContentsValues == {<<>>, <<" ">>, <<"a">>}

\* the first row of each table takes every value of the column; the rows
\* after it are fixed: product i has product_no i (the review ids are the
\* same numbers), product 20 has no name; review 20 has the contents "a",
\* review 30 " a "
OrdinaryProductNo(i) == [numeric |-> TRUE, val |-> i]
OrdinaryName(i) == IF i = 20 THEN <<>> ELSE <<"a">>
OrdinaryContents(i) == IF i = 30 THEN <<" ", "a", " ">> ELSE <<"a">>

EmbedOutcomes == {"ok", "empty", "err"}
PutOutcomes == {"ok", "err"}

\* ------------------------------------------------------------ pure helpers
RECURSIVE LStrip(_)
LStrip(s) == IF s # <<>> /\ Head(s) = " " THEN LStrip(Tail(s)) ELSE s

RECURSIVE RStrip(_)
RStrip(s) ==
    IF s # <<>> /\ s[Len(s)] = " " THEN RStrip(SubSeq(s, 1, Len(s) - 1)) ELSE s

\* str.strip()
Strip(s) == RStrip(LStrip(s))

\* the sequence of the elements of a set of integers, ascending (ORDER BY id, sorted())
RECURSIVE Sorted(_)
Sorted(S) ==
    IF S = {} THEN <<>>
    ELSE LET m == CHOOSE x \in S : \A y \in S : x <= y
         IN <<m>> \o Sorted(S \ {m})

\* str(e) of the exception the request of the given number raised
ErrorMessage(attempt) == <<"error 1", "error 2", "error 3">>[attempt]

\* time.sleep(2 ** attempt) after the request of the given number (from 1)
EmbedBackoff(attempt) == 2 ^ (attempt - 1)

\* time.sleep(1)
QdrantDelay == 1

\* the loop left after the first request, whatever it raised
generate_embedding_once(outcomes, attempt, slept) ==
    IF outcomes[attempt] = "ok"
    THEN [vector |-> "embedding", error |-> None, attempts |-> attempt, slept |-> slept]
    ELSE IF outcomes[attempt] = "empty"
    THEN [vector |-> None, error |-> "empty embeddings in response",
          attempts |-> attempt, slept |-> slept]
    ELSE [vector |-> None, error |-> ErrorMessage(attempt),
          attempts |-> attempt, slept |-> slept]

RECURSIVE generate_embedding_from(_, _, _)
generate_embedding_from(outcomes, attempt, slept) ==
    IF attempt > EmbedRetry
    THEN [vector |-> None, error |-> "unknown", attempts |-> attempt - 1, slept |-> slept]
    ELSE IF outcomes[attempt] = "ok"
    THEN [vector |-> "embedding", error |-> None, attempts |-> attempt, slept |-> slept]
    ELSE IF outcomes[attempt] = "empty"
    THEN [vector |-> None, error |-> "empty embeddings in response",
          attempts |-> attempt, slept |-> slept]
    ELSE IF attempt < EmbedRetry
    THEN generate_embedding_from(outcomes, attempt + 1, Append(slept, EmbedBackoff(attempt)))
    ELSE [vector |-> None, error |-> ErrorMessage(attempt),
          attempts |-> attempt, slept |-> slept]

\* generate_embedding(text, retry = 3) against a service answering outcomes[k]
\* to the k-th request: "ok" a vector, "empty" a response without one, "err"
\* an exception of requests
generate_embedding(outcomes) == generate_embedding_from(outcomes, 1, <<>>)

\* the requests repeated as in generate_embedding
try_embed_retrying(outcomes) == generate_embedding(outcomes)

\* try_embed(text): one request, no retry
try_embed(outcomes) ==
    IF outcomes[1] = "ok"
    THEN [vector |-> "embedding", error |-> None, attempts |-> 1, slept |-> <<>>]
    ELSE IF outcomes[1] = "empty"
    THEN [vector |-> None, error |-> "empty embeddings", attempts |-> 1, slept |-> <<>>]
    ELSE [vector |-> None, error |-> ErrorMessage(1), attempts |-> 1, slept |-> <<>>]

\* a fourth PUT after three that failed
RECURSIVE save_to_qdrant_unbounded(_, _, _)
save_to_qdrant_unbounded(outcomes, attempt, slept) ==
    IF attempt > Len(outcomes) THEN [ok |-> TRUE, attempts |-> attempt, slept |-> slept]
    ELSE IF outcomes[attempt] = "ok" THEN [ok |-> TRUE, attempts |-> attempt, slept |-> slept]
    ELSE save_to_qdrant_unbounded(outcomes, attempt + 1, Append(slept, QdrantDelay))

RECURSIVE save_to_qdrant_from(_, _, _)
save_to_qdrant_from(outcomes, attempt, slept) ==
    IF attempt > QdrantRetry THEN [ok |-> FALSE, attempts |-> attempt - 1, slept |-> slept]
    ELSE IF outcomes[attempt] = "ok" THEN [ok |-> TRUE, attempts |-> attempt, slept |-> slept]
    ELSE IF attempt < QdrantRetry
    THEN save_to_qdrant_from(outcomes, attempt + 1, Append(slept, QdrantDelay))
    ELSE [ok |-> FALSE, attempts |-> attempt, slept |-> slept]

\* save_to_qdrant(point_id, vector, payload, retry = 3) against an index
\* answering outcomes[k] to the k-th PUT
save_to_qdrant(outcomes) == save_to_qdrant_from(outcomes, 1, <<>>)

\* what one call of each client can return, over every behaviour of its service
EmbeddingResults == {generate_embedding(eo) : eo \in [1..EmbedRetry -> EmbedOutcomes]}
TryEmbedResults == {try_embed(eo) : eo \in [1..1 -> EmbedOutcomes]}
SaveResults == {save_to_qdrant(po) : po \in [1..QdrantRetry -> PutOutcomes]}

\* every exception caught: a file that is not JSON read as no file
LoadFailsNever(file) == FALSE

\* json.load raises on a file that is not JSON (only FileNotFoundError is caught)
LoadFails(file) == file.exists /\ file.corrupt

\* load_checkpoint(): the file's content, or empty lists when there is no file
\* (load_checkpoint_fresh: empty lists always)
load_checkpoint_fresh(file) == [products |-> {}, reviews |-> {}]
load_checkpoint(file) ==
    IF file.exists
    THEN [products |-> file.products, reviews |-> file.reviews]
    ELSE [products |-> {}, reviews |-> {}]

\* save_checkpoint(checkpoint): the whole file is overwritten
save_checkpoint(checkpoint) ==
    [exists |-> TRUE, corrupt |-> FALSE,
     products |-> checkpoint.products, reviews |-> checkpoint.reviews]

\* the point added next to any point of the same id
UpsertAppend(idx, point) == idx \cup {point}

\* the index after a successful PUT of one point: the point replaces any
\* point of the same id
Upsert(idx, point) == {q \in idx : q.id # point.id} \cup {point}

\* the ids of the points of an index
PointIdsOf(idx) == {q.id : q \in idx}

\* point_id = int(product_no)
ProductPointId(product_no) == product_no.val

\* point_id = 10000000 + review_id (initial_embedding.py)
ReviewPointId(review_id) == ReviewOffset + review_id

\* the recovery driver with another offset than the pipeline driver
RetryPointIdOtherOffset(review_id) == 1000000 + review_id

\* point_id = 10000000 + review_id (retry_failed_embeddings.py)
RetryPointId(review_id) == ReviewOffset + review_id

\* the periodic flush forgotten
FlushDueNever(count, every) == FALSE

\* the membership test forgotten: nothing is skipped
AlreadyProcessedNever(id, processed) == FALSE

\* if product_id in processed_ids / if review_id in processed_ids
AlreadyProcessed(id, processed) == id \in processed

\* the set started anew from the identifier just written
MarkProcessedAlone(processed, id, saved) ==
    IF saved THEN {id} ELSE processed

\* the identifier added whatever save_to_qdrant returned
MarkProcessedAlways(processed, id, saved) == processed \cup {id}

\* processed_ids after save_to_qdrant returned saved
MarkProcessed(processed, id, saved) ==
    IF saved THEN processed \cup {id} ELSE processed

\* success_count % K == 0
FlushDue(count, every) == count % every = 0

\* embedding_text of a product: the labels are always there
ProductText(row) == <<"l">> \o row.product_name

\* contents = (row[2] or "").strip()
ReviewText(row) == Strip(row.contents)

\* the emptiness test forgotten
NoContentsNever(text) == FALSE

\* if not contents
NoContents(text) == text = <<>>

\* the failure counted and not logged
LogFailureDropped(log, review_id, error, text) == log

\* failed_log.append({"review_id": ..., "error": ..., ...})
LogFailure(log, review_id, error, text) ==
    Append(log, [review_id |-> review_id, error |-> error, contents_length |-> Len(text)])

\* payload of a product point and of a review point (absent keys are None)
ProductPayload(point_id, row, vector) ==
    [id |-> point_id, type |-> "product", src |-> row.product_no.val,
     vector |-> vector, embedding_fallback |-> FALSE, contents |-> None]

ReviewPayload(point_id, review_id, vector) ==
    [id |-> point_id, type |-> "review", src |-> review_id,
     vector |-> vector, embedding_fallback |-> FALSE, contents |-> "preview"]

\* the flag never set
RetryPayloadUnflagged(point_id, review_id, vector, use_fallback) ==
    [id |-> point_id, type |-> "review", src |-> review_id,
     vector |-> vector, embedding_fallback |-> FALSE, contents |-> None]

\* payload of the recovery driver: no contents preview, and
\* embedding_fallback set with use_fallback
RetryPayload(point_id, review_id, vector, use_fallback) ==
    [id |-> point_id, type |-> "review", src |-> review_id,
     vector |-> vector, embedding_fallback |-> use_fallback, contents |-> None]

\* ------------------------------------------------------------------ state
VARIABLES
    products,       \* table kurly_skin_products: id -> row
    reviews,        \* table kurly_skin_reviews: id -> row
    ckptFile,       \* embedding_checkpoint.json
    ledgerFile,     \* embedding_failures.json
    index,          \* points of the collection kurly_skin
    pc,             \* "idle", "run", "done", "interrupted", "aborted", "failed"
    kind,           \* the running driver: "products", "reviews", "retry"
    args,           \* command line of the running script
    runs,           \* driver runs started so far
    rows,           \* rows fetched by the run (failed_ids in the recovery driver)
    pos,            \* index in rows of the next row
    checkpoint,     \* the loaded checkpoint dict
    processed_ids,  \* the run's set of done identifiers
    loaded_ids,     \* processed_ids as loaded at the start of the run
    success_count, skip_count, fail_count,
    failed_log,
    embedCalls,     \* ids the run called the Embedding Client for
    embedOk,        \* ids it returned a vector for
    writeCalls,     \* ids the run called the Index Writer for
    writeOk,        \* ids it returned True for
    rewritten,      \* ids of them whose point id was in the index already
    service,        \* what the embedding service and the index answer to the
                    \* requests of one client call, in order
    reply,          \* the client function called and what it returned
    peer            \* a second process running one of the drivers at the
                    \* same time on the same files

store == <<products, reviews, ckptFile, ledgerFile, index>>
counters == <<success_count, skip_count, fail_count>>
calls == <<embedCalls, embedOk, writeCalls, writeOk, rewritten>>
local == <<rows, pos, checkpoint, processed_ids, loaded_ids, counters, failed_log, calls>>
client == <<service, reply>>
vars == <<store, pc, kind, args, runs, local, client, peer>>

NoArgs == [product |-> FALSE, review |-> FALSE, from_db |-> FALSE, fallback |-> FALSE]

NoFile == [exists |-> FALSE, corrupt |-> FALSE, products |-> {}, reviews |-> {}]
\* a checkpoint file that holds no JSON document
CorruptFile == [exists |-> TRUE, corrupt |-> TRUE, products |-> {}, reviews |-> {}]

NoService == [embed |-> <<>>, put |-> <<>>]
NoPeer == [pc |-> "idle", kind |-> "none", checkpoint |-> [products |-> {}, reviews |-> {}],
           processed_ids |-> {}, rows |-> <<>>, pos |-> 1, success_count |-> 0,
           failed_log |-> <<>>, persisted |-> {}]
NoReply == [fn |-> "none", vector |-> None, error |-> None, ok |-> FALSE,
            attempts |-> 0, slept |-> <<>>, use_fallback |-> FALSE]

\* no script has run
InitRun ==
    /\ pc = "idle"
    /\ kind = "none"
    /\ args = NoArgs
    /\ rows = <<>>
    /\ pos = 1
    /\ checkpoint = [products |-> {}, reviews |-> {}]
    /\ processed_ids = {}
    /\ loaded_ids = {}
    /\ success_count = 0 /\ skip_count = 0 /\ fail_count = 0
    /\ failed_log = <<>>
    /\ embedCalls = {} /\ embedOk = {} /\ writeCalls = {} /\ writeOk = {}
    /\ rewritten = {}

\* the tables with the given ids and the given first rows
TablesOf(product_ids, review_ids, no, contents) ==
    /\ products = [i \in product_ids |->
                      [id |-> i,
                       product_no |-> IF i = 10 THEN no ELSE OrdinaryProductNo(i),
                       product_name |-> OrdinaryName(i)]]
    /\ reviews = [i \in review_ids |->
                     [id |-> i,
                      contents |-> IF i = 10 THEN contents ELSE OrdinaryContents(i)]]

Tables(no, contents) == TablesOf(ProductIds, ReviewIds, no, contents)

Init ==
    /\ \E no \in ProductNos, contents \in ContentsValues : Tables(no, contents)
    /\ ckptFile \in {NoFile, CorruptFile}
    /\ ledgerFile = [exists |-> FALSE, entries |-> <<>>]
    /\ index = {}
    /\ InitRun
    /\ runs = 0
    /\ service = NoService
    /\ reply = NoReply
    /\ peer = NoPeer

\* the memory of a process that exited on an exception
Lost ==
    /\ rows' = <<>>
    /\ pos' = 1
    /\ checkpoint' = [products |-> {}, reviews |-> {}]
    /\ processed_ids' = {}
    /\ loaded_ids' = {}
    /\ success_count' = 0 /\ skip_count' = 0 /\ fail_count' = 0
    /\ failed_log' = <<>>
    /\ embedCalls' = {} /\ embedOk' = {} /\ writeCalls' = {} /\ writeOk' = {}
    /\ rewritten' = {}

\* no script is running
Idle == pc \in {"idle", "interrupted", "aborted", "failed"} \/ (pc = "done" /\ ~(kind = "products" /\ args.review))

\* SELECT ... FROM kurly_skin_products ORDER BY id
QueryProducts == [i \in 1..Len(Sorted(DOMAIN products)) |-> products[Sorted(DOMAIN products)[i]]]

\* SELECT ... FROM kurly_skin_reviews WHERE contents IS NOT NULL AND contents != '' ORDER BY id
ReviewsWithContents == {i \in DOMAIN reviews : reviews[i].contents # <<>>}
QueryReviews == [i \in 1..Len(Sorted(ReviewsWithContents)) |-> reviews[Sorted(ReviewsWithContents)[i]]]

\* the start of process_products / process_reviews: load the checkpoint,
\* fetch the rows, reset the counters
BeginRun(k, loaded, ids, fetched) ==
    /\ kind' = k
    /\ checkpoint' = loaded
    /\ processed_ids' = ids
    /\ loaded_ids' = ids
    /\ rows' = fetched
    /\ pos' = 1
    /\ success_count' = 0 /\ skip_count' = 0 /\ fail_count' = 0
    /\ failed_log' = <<>>
    /\ embedCalls' = {} /\ embedOk' = {} /\ writeCalls' = {} /\ writeOk' = {}
    /\ rewritten' = {}

\* the run ends before its loop: json.load raised in load_checkpoint, or
\* query_postgres ended the process (sys.exit(1), CalledProcessError)
Abort(k) ==
    /\ pc' = "aborted"
    /\ kind' = k
    /\ Lost
    /\ UNCHANGED store

\* python initial_embedding.py --product | --all (process_products comes first)
StartProducts ==
    /\ Idle
    /\ \E all \in BOOLEAN :
         /\ runs + (IF all THEN 2 ELSE 1) <= MaxRuns
         /\ args' = [NoArgs EXCEPT !.product = TRUE, !.review = all]
    /\ runs' = runs + 1
    /\ \E query_ok \in BOOLEAN :
         IF LoadFails(ckptFile) \/ ~query_ok
         THEN Abort("products")
         ELSE /\ pc' = "run"
              /\ BeginRun("products", load_checkpoint(ckptFile),
                          load_checkpoint(ckptFile).products, QueryProducts)
              /\ UNCHANGED store
    /\ UNCHANGED <<client, peer>>

\* python initial_embedding.py --review, or process_reviews after
\* process_products under --all
StartReviews ==
    /\ \/ /\ Idle
          /\ runs < MaxRuns
          /\ args' = [NoArgs EXCEPT !.review = TRUE]
          /\ runs' = runs + 1
       \/ /\ pc = "done" /\ kind = "products" /\ args.review
          /\ runs' = runs + 1
          /\ UNCHANGED args
    /\ \E query_ok \in BOOLEAN :
         IF LoadFails(ckptFile) \/ ~query_ok
         THEN Abort("reviews")
         ELSE /\ pc' = "run"
              /\ BeginRun("reviews", load_checkpoint(ckptFile),
                          load_checkpoint(ckptFile).reviews, QueryReviews)
              /\ UNCHANGED store
    /\ UNCHANGED <<client, peer>>

\* for row in rows: the loop goes on to the next row whatever the row's
\* outcome was (SameRow: it tries the row again)
SameRow(i) == i
NextRow(i) == i + 1

\* the checkpoint file after save_checkpoint(dict) was called: written whole,
\* or as it was if open() raised (OSError)
Flush(file, dict, saved) == IF saved THEN save_checkpoint(dict) ELSE file

\* fail_count after the periodic flush of a row: the except Exception of the
\* loop counts a flush that raised
CountRaised(count, saved) == IF saved THEN count ELSE count + 1

\* one iteration of the loop of process_products
ProcessProduct ==
    /\ pc = "run" /\ kind = "products" /\ pos <= Len(rows)
    /\ pos' = NextRow(pos)
    /\ LET row == rows[pos]
           product_id == row.id
       IN
       IF AlreadyProcessed(product_id, processed_ids)
       THEN /\ skip_count' = skip_count + 1
            /\ UNCHANGED <<store, checkpoint, processed_ids, success_count, fail_count, calls>>
       ELSE \E emb \in EmbeddingResults :
            /\ embedCalls' = embedCalls \cup {product_id}
            /\ IF emb.vector = None
               THEN /\ fail_count' = fail_count + 1
                    /\ UNCHANGED <<store, checkpoint, processed_ids, success_count, skip_count,
                                   embedOk, writeCalls, writeOk, rewritten>>
               ELSE /\ embedOk' = embedOk \cup {product_id}
                    /\ IF ~row.product_no.numeric
                       THEN \* int(product_no) raises ValueError
                            /\ fail_count' = fail_count + 1
                            /\ UNCHANGED <<store, checkpoint, processed_ids, success_count,
                                           skip_count, writeCalls, writeOk, rewritten>>
                       ELSE \E put \in SaveResults :
                            LET point_id == ProductPointId(row.product_no)
                            IN
                            /\ writeCalls' = writeCalls \cup {product_id}
                            /\ processed_ids' = MarkProcessed(processed_ids, product_id, put.ok)
                            /\ IF put.ok
                               THEN /\ index' = Upsert(index, ProductPayload(point_id, row, emb.vector))
                                    /\ writeOk' = writeOk \cup {product_id}
                                    /\ rewritten' = IF point_id \in PointIdsOf(index)
                                                     THEN rewritten \cup {product_id} ELSE rewritten
                                    /\ success_count' = success_count + 1
                                    /\ IF FlushDue(success_count', ProductFlushEvery)
                                       THEN /\ checkpoint' = [checkpoint EXCEPT !.products = processed_ids']
                                            /\ \E saved \in BOOLEAN :
                                                 /\ ckptFile' = Flush(ckptFile, checkpoint', saved)
                                                 /\ fail_count' = CountRaised(fail_count, saved)
                                       ELSE UNCHANGED <<checkpoint, ckptFile, fail_count>>
                                    /\ UNCHANGED <<products, reviews, ledgerFile, skip_count>>
                               ELSE /\ fail_count' = fail_count + 1
                                    /\ UNCHANGED <<store, checkpoint, success_count, skip_count, writeOk, rewritten>>
    /\ UNCHANGED <<pc, kind, args, runs, rows, loaded_ids, failed_log, client, peer>>

\* one iteration of the loop of process_reviews
ProcessReview ==
    /\ pc = "run" /\ kind = "reviews" /\ pos <= Len(rows)
    /\ pos' = NextRow(pos)
    /\ LET row == rows[pos]
           review_id == row.id
           contents == ReviewText(row)
       IN
       IF AlreadyProcessed(review_id, processed_ids)
       THEN /\ skip_count' = skip_count + 1
            /\ UNCHANGED <<store, checkpoint, processed_ids, success_count, fail_count,
                           failed_log, calls>>
       ELSE IF NoContents(contents)
       THEN /\ skip_count' = skip_count + 1
            /\ UNCHANGED <<store, checkpoint, processed_ids, success_count, fail_count,
                           failed_log, calls>>
       ELSE \E emb \in EmbeddingResults :
            /\ embedCalls' = embedCalls \cup {review_id}
            /\ IF emb.vector = None
               THEN /\ fail_count' = fail_count + 1
                    /\ failed_log' = LogFailure(failed_log, review_id, emb.error, contents)
                    /\ UNCHANGED <<store, checkpoint, processed_ids, success_count, skip_count,
                                   embedOk, writeCalls, writeOk, rewritten>>
               ELSE \E put \in SaveResults :
                    LET point_id == ReviewPointId(review_id)
                    IN
                    /\ embedOk' = embedOk \cup {review_id}
                    /\ writeCalls' = writeCalls \cup {review_id}
                    /\ processed_ids' = MarkProcessed(processed_ids, review_id, put.ok)
                    /\ UNCHANGED failed_log
                    /\ IF put.ok
                       THEN /\ index' = Upsert(index, ReviewPayload(point_id, review_id, emb.vector))
                            /\ writeOk' = writeOk \cup {review_id}
                            /\ rewritten' = IF point_id \in PointIdsOf(index)
                                             THEN rewritten \cup {review_id} ELSE rewritten
                            /\ success_count' = success_count + 1
                            /\ IF FlushDue(success_count', ReviewFlushEvery)
                               THEN /\ checkpoint' = [checkpoint EXCEPT !.reviews = processed_ids']
                                    /\ \E saved \in BOOLEAN :
                                         /\ ckptFile' = Flush(ckptFile, checkpoint', saved)
                                         /\ fail_count' = CountRaised(fail_count, saved)
                               ELSE UNCHANGED <<checkpoint, ckptFile, fail_count>>
                            /\ UNCHANGED <<products, reviews, ledgerFile, skip_count>>
                       ELSE /\ fail_count' = fail_count + 1
                            /\ UNCHANGED <<store, checkpoint, success_count, skip_count, writeOk, rewritten>>
    /\ UNCHANGED <<pc, kind, args, runs, rows, loaded_ids, client, peer>>

\* the end of process_products: the unconditional flush and the summary
FinishProducts ==
    /\ pc = "run" /\ kind = "products" /\ pos > Len(rows)
    /\ checkpoint' = [checkpoint EXCEPT !.products = processed_ids]
    /\ ckptFile' = save_checkpoint(checkpoint')
    /\ pc' = "done"
    /\ UNCHANGED <<products, reviews, ledgerFile, index, kind, args, runs, rows, pos,
                   processed_ids, loaded_ids, counters, failed_log, calls, client, peer>>

\* embedding_failures.json after process_reviews: written only if failed_log
WriteLedger(file, log) ==
    IF log # <<>> THEN [exists |-> TRUE, entries |-> log] ELSE file

\* the end of process_reviews: the unconditional flush, the ledger, the summary
FinishReviews ==
    /\ pc = "run" /\ kind = "reviews" /\ pos > Len(rows)
    /\ checkpoint' = [checkpoint EXCEPT !.reviews = processed_ids]
    /\ ckptFile' = save_checkpoint(checkpoint')
    /\ ledgerFile' = WriteLedger(ledgerFile, failed_log)
    /\ pc' = "done"
    /\ UNCHANGED <<products, reviews, index, kind, args, runs, rows, pos,
                   processed_ids, loaded_ids, counters, failed_log, calls, client, peer>>

\* KeyboardInterrupt between two rows of a run: the exception leaves the
\* loop past the final save_checkpoint; main of initial_embedding.py catches
\* it, prints that the checkpoint is saved, and the process exits
Interrupt ==
    /\ pc = "run"
    /\ pc' = "interrupted"
    /\ Lost
    /\ UNCHANGED <<store, kind, args, runs, client, peer>>

\* KeyboardInterrupt inside a row of a pipeline run, after save_to_qdrant
\* wrote the point and before processed_ids.add
InterruptInRow ==
    /\ pc = "run" /\ kind \in {"products", "reviews"} /\ pos <= Len(rows)
    /\ LET row == rows[pos] IN
       /\ ~AlreadyProcessed(row.id, processed_ids)
       /\ IF kind = "products"
          THEN /\ row.product_no.numeric
               /\ index' = Upsert(index, ProductPayload(ProductPointId(row.product_no), row,
                                                        "embedding"))
          ELSE /\ ~NoContents(ReviewText(row))
               /\ index' = Upsert(index, ReviewPayload(ReviewPointId(row.id), row.id,
                                                       "embedding"))
    /\ pc' = "interrupted"
    /\ Lost
    /\ UNCHANGED <<products, reviews, ckptFile, ledgerFile, kind, args, runs, client, peer>>

\* save_checkpoint raises where no except Exception of a loop encloses it:
\* the final flush of a pipeline run (main of initial_embedding.py prints the
\* error and exits with 1, the ledger is not written), or the flush of the
\* recovery driver after save_to_qdrant wrote the point (traceback)
SaveCheckpointRaises ==
    /\ pc = "run"
    /\ IF kind \in {"products", "reviews"}
       THEN /\ pos > Len(rows)
            /\ UNCHANGED index
       ELSE /\ pos <= Len(rows)
            /\ rows[pos].id \in DOMAIN reviews
            /\ ~NoContents(ReviewText(reviews[rows[pos].id]))
            /\ \E use_fallback \in {FALSE, args.fallback} :
                 index' = Upsert(index, RetryPayload(RetryPointId(rows[pos].id), rows[pos].id,
                                                     IF use_fallback THEN "FALLBACK_VECTOR"
                                                     ELSE "embedding",
                                                     use_fallback))
    /\ pc' = "failed"
    /\ Lost
    /\ UNCHANGED <<products, reviews, ckptFile, ledgerFile, kind, args, runs, client, peer>>

\* failed_ids of the recovery driver: the source minus the checkpoint
\* (--from-db), or the review_id of every ledger entry that has one
\* (PendingFromDbAll: the checkpoint not subtracted)
PendingFromDbAll == Sorted(ReviewsWithContents)
PendingFromDb == Sorted(ReviewsWithContents \ load_checkpoint(ckptFile).reviews)
HasReviewId(x) == x.review_id # 0
PendingFromLedger ==
    LET failures == SelectSeq(ledgerFile.entries, HasReviewId)
    IN [i \in 1..Len(failures) |-> [id |-> failures[i].review_id]]

\* vector and use_fallback of the recovery driver after try_embed
RetryVector(emb, fallback) ==
    IF emb.vector # None THEN [vector |-> emb.vector, use_fallback |-> FALSE]
    ELSE IF fallback THEN [vector |-> "FALLBACK_VECTOR", use_fallback |-> TRUE]
    ELSE [vector |-> None, use_fallback |-> FALSE]

\* the recovery driver returns before its loop: no ledger file, or nothing
\* to retry
NothingToRetry(loaded) ==
    /\ pc' = "done"
    /\ BeginRun("retry", loaded, loaded.reviews, <<>>)
    /\ UNCHANGED store

\* python retry_failed_embeddings.py [--from-db] [--fallback], up to the loop
StartRetry ==
    /\ Idle
    /\ runs < MaxRuns
    /\ runs' = runs + 1
    /\ \E from_db \in BOOLEAN, fallback \in BOOLEAN, query_ok \in BOOLEAN :
         /\ args' = [NoArgs EXCEPT !.from_db = from_db, !.fallback = fallback]
         /\ IF from_db
            THEN IF LoadFails(ckptFile) \/ ~query_ok
                 THEN Abort("retry")
                 ELSE IF PendingFromDb = <<>>
                 THEN NothingToRetry(load_checkpoint(ckptFile))
                 ELSE /\ pc' = "run"
                      /\ BeginRun("retry", load_checkpoint(ckptFile),
                                  load_checkpoint(ckptFile).reviews,
                                  [i \in 1..Len(PendingFromDb) |-> [id |-> PendingFromDb[i]]])
                      /\ UNCHANGED store
            ELSE IF PendingFromLedger = <<>>
                 THEN NothingToRetry([products |-> {}, reviews |-> {}])
                 ELSE IF LoadFails(ckptFile)
                 THEN Abort("retry")
                 ELSE /\ pc' = "run"
                      /\ BeginRun("retry", load_checkpoint(ckptFile),
                                  load_checkpoint(ckptFile).reviews, PendingFromLedger)
                      /\ UNCHANGED store
    /\ UNCHANGED <<client, peer>>

\* one iteration of the loop of the recovery driver
RetryReview ==
    /\ pc = "run" /\ kind = "retry" /\ pos <= Len(rows)
    /\ pos' = NextRow(pos)
    /\ LET review_id == rows[pos].id IN
       IF review_id \notin DOMAIN reviews
       THEN /\ fail_count' = fail_count + 1
            /\ UNCHANGED <<store, checkpoint, processed_ids, success_count, calls>>
       ELSE
       LET row == reviews[review_id]
           contents == ReviewText(row)
       IN
       IF NoContents(contents)
       THEN /\ fail_count' = fail_count + 1
            /\ UNCHANGED <<store, checkpoint, processed_ids, success_count, calls>>
       ELSE \E emb \in TryEmbedResults :
            LET got == RetryVector(emb, args.fallback) IN
            /\ embedCalls' = embedCalls \cup {review_id}
            /\ embedOk' = IF emb.vector # None THEN embedOk \cup {review_id} ELSE embedOk
            /\ IF got.vector = None
               THEN /\ fail_count' = fail_count + 1
                    /\ UNCHANGED <<store, checkpoint, processed_ids, success_count,
                                   writeCalls, writeOk, rewritten>>
               ELSE \E put \in SaveResults :
                    LET point_id == RetryPointId(review_id)
                    IN
                    /\ writeCalls' = writeCalls \cup {review_id}
                    /\ processed_ids' = MarkProcessed(processed_ids, review_id, put.ok)
                    /\ IF put.ok
                       THEN /\ index' = Upsert(index, RetryPayload(point_id, review_id,
                                                                   got.vector, got.use_fallback))
                            /\ writeOk' = writeOk \cup {review_id}
                            /\ rewritten' = IF point_id \in PointIdsOf(index)
                                             THEN rewritten \cup {review_id} ELSE rewritten
                            /\ checkpoint' = [checkpoint EXCEPT !.reviews = processed_ids']
                            /\ ckptFile' = save_checkpoint(checkpoint')
                            /\ success_count' = success_count + 1
                            /\ UNCHANGED <<products, reviews, ledgerFile, fail_count>>
                       ELSE /\ fail_count' = fail_count + 1
                            /\ UNCHANGED <<store, checkpoint, success_count, writeOk, rewritten>>
    /\ UNCHANGED <<pc, kind, args, runs, rows, loaded_ids, skip_count, failed_log, client, peer>>

\* the end of the recovery driver: the summary
FinishRetry ==
    /\ pc = "run" /\ kind = "retry" /\ pos > Len(rows)
    /\ pc' = "done"
    /\ UNCHANGED <<store, kind, args, runs, local, client, peer>>

Next ==
    \/ StartProducts
    \/ StartReviews
    \/ ProcessProduct
    \/ ProcessReview
    \/ FinishProducts
    \/ FinishReviews
    \/ Interrupt
    \/ InterruptInRow
    \/ SaveCheckpointRaises
    \/ StartRetry
    \/ RetryReview
    \/ FinishRetry

Spec == Init /\ [][Next]_vars

\* ------------------------------------------------- the clients on their own
\* one call of a client function against a service whose answers to the
\* successive requests of the call are drawn at the start
InitClients ==
    /\ Tables(OrdinaryProductNo(10), OrdinaryContents(10))
    /\ ckptFile = NoFile
    /\ ledgerFile = [exists |-> FALSE, entries |-> <<>>]
    /\ index = {}
    /\ InitRun
    /\ runs = 0
    /\ service \in [embed : [1..EmbedRetry -> EmbedOutcomes],
                    put : [1..QdrantRetry -> PutOutcomes]]
    /\ reply = NoReply
    /\ peer = NoPeer

\* vector, _ = generate_embedding(text)
CallGenerateEmbedding ==
    /\ LET r == generate_embedding(service.embed) IN
       reply' = [NoReply EXCEPT !.fn = "generate_embedding", !.vector = r.vector,
                                !.error = r.error, !.ok = r.vector # None,
                                !.attempts = r.attempts, !.slept = r.slept]
    /\ UNCHANGED <<store, pc, kind, args, runs, local, service, peer>>

\* save_to_qdrant(point_id, vector, payload)
CallSaveToQdrant ==
    /\ LET r == save_to_qdrant(service.put) IN
       reply' = [NoReply EXCEPT !.fn = "save_to_qdrant", !.ok = r.ok,
                                !.attempts = r.attempts, !.slept = r.slept]
    /\ UNCHANGED <<store, pc, kind, args, runs, local, service, peer>>

\* the embedding step of the recovery driver: try_embed, then the fallback
\* vector if the script was started with --fallback
CallTryEmbed ==
    /\ \E fallback \in BOOLEAN :
         LET r == try_embed(service.embed)
             got == RetryVector(r, fallback)
         IN
         reply' = [NoReply EXCEPT !.fn = "try_embed", !.vector = got.vector,
                                  !.error = r.error, !.ok = r.vector # None,
                                  !.attempts = r.attempts, !.slept = r.slept,
                                  !.use_fallback = got.use_fallback]
    /\ UNCHANGED <<store, pc, kind, args, runs, local, service, peer>>

NextClients ==
    \/ CallGenerateEmbedding
    \/ CallSaveToQdrant
    \/ CallTryEmbed

SpecClients == InitClients /\ [][NextClients]_vars

\* ------------------------------------------- long tables, one pipeline run
\* the tables hold one row more than the flush period; the checkpoint file
\* is missing, or holds the first record of each kind, written when it was
\* the only one; one run is left
InitCadence ==
    /\ TablesOf({10 * i : i \in 1..CadenceProducts}, {10 * i : i \in 1..CadenceReviews},
                OrdinaryProductNo(10), OrdinaryContents(10))
    /\ \/ ckptFile = NoFile /\ index = {}
       \/ /\ ckptFile = save_checkpoint([products |-> {10}, reviews |-> {10}])
          /\ index = {ProductPayload(ProductPointId(products[10].product_no), products[10],
                                     "embedding"),
                      ReviewPayload(ReviewPointId(10), 10, "embedding")}
    /\ ledgerFile = [exists |-> FALSE, entries |-> <<>>]
    /\ InitRun
    /\ runs = MaxRuns - 1
    /\ service = NoService
    /\ reply = NoReply
    /\ peer = NoPeer

\* the loops with at most CadenceFaults failed rows in a run
ProcessProductFewFaults == ProcessProduct /\ fail_count' <= CadenceFaults
ProcessReviewFewFaults == ProcessReview /\ fail_count' <= CadenceFaults

\* the pipeline driver, never interrupted
NextCadence ==
    \/ StartProducts
    \/ StartReviews
    \/ ProcessProductFewFaults
    \/ ProcessReviewFewFaults
    \/ FinishProducts
    \/ FinishReviews

SpecCadence == InitCadence /\ [][NextCadence]_vars

\* --------------------------------------------------- a source that shrinks
\* the function f without the argument id
Without(f, id) == [i \in DOMAIN f \ {id} |-> f[i]]

NoRowDeleted ==
    Cardinality(DOMAIN products) = NumProducts /\ Cardinality(DOMAIN reviews) = NumReviews

\* between two runs a record that the checkpoint file holds is deleted from
\* kurly_skin_products (the first deletion of a behaviour)
DeleteProduct ==
    /\ Idle /\ NoRowDeleted /\ ckptFile.exists
    /\ \E id \in DOMAIN products \cap ckptFile.products : products' = Without(products, id)
    /\ UNCHANGED <<reviews, ckptFile, ledgerFile, index, pc, kind, args, runs, local, client, peer>>

\* the same for kurly_skin_reviews
DeleteReview ==
    /\ Idle /\ NoRowDeleted /\ ckptFile.exists
    /\ \E id \in DOMAIN reviews \cap ckptFile.reviews : reviews' = Without(reviews, id)
    /\ UNCHANGED <<products, ckptFile, ledgerFile, index, pc, kind, args, runs, local, client, peer>>

NextChurn ==
    \/ Next
    \/ DeleteProduct
    \/ DeleteReview

SpecChurn == Init /\ [][NextChurn]_vars

\* ------------------------------------- a pipeline run whose calls return
\* the pipeline driver, never interrupted, its final flush succeeding
NextLive ==
    \/ StartProducts
    \/ StartReviews
    \/ ProcessProduct
    \/ ProcessReview
    \/ FinishProducts
    \/ FinishReviews

\* every call of a client returns (after a timeout at the latest) and so
\* does save_checkpoint: the loop of a started run and the code after it
\* keep going
SpecLive ==
    /\ Init
    /\ [][NextLive]_vars
    /\ WF_vars(ProcessProduct) /\ WF_vars(ProcessReview)
    /\ WF_vars(FinishProducts) /\ WF_vars(FinishReviews)

\* ------------------------------------------------- two processes, one file
\* the tables hold ordinary rows; the checkpoint file is missing, or holds
\* the first record of each kind; the script has one run left and a second
\* process may run one driver at the same time
InitConcurrent ==
    /\ Tables(OrdinaryProductNo(10), OrdinaryContents(10))
    /\ \/ ckptFile = NoFile /\ index = {}
       \/ /\ ckptFile = save_checkpoint([products |-> {10}, reviews |-> {10}])
          /\ index = {ProductPayload(ProductPointId(products[10].product_no), products[10],
                                     "embedding"),
                      ReviewPayload(ReviewPointId(10), 10, "embedding")}
    /\ ledgerFile = [exists |-> FALSE, entries |-> <<>>]
    /\ InitRun
    /\ runs = MaxRuns - 1
    /\ service = NoService
    /\ reply = NoReply
    /\ peer = NoPeer

\* the identifiers of a sequence of rows
IdsOf(fetched) == [i \in 1..Len(fetched) |-> fetched[i].id]

\* the checkpoint dict with the list of the driver's kind replaced
\* (WithListAlone: a dict holding that list only)
WithListAlone(dict, k, ids) ==
    IF k = "products" THEN [products |-> ids, reviews |-> {}]
    ELSE [products |-> {}, reviews |-> ids]
WithList(dict, k, ids) ==
    IF k = "products" THEN [dict EXCEPT !.products = ids] ELSE [dict EXCEPT !.reviews = ids]

\* the second process starts process_products, process_reviews or the
\* recovery driver with --from-db: it loads the checkpoint and fetches the rows
PeerStart ==
    /\ peer.pc = "idle"
    /\ ~LoadFails(ckptFile)
    /\ \E k \in {"products", "reviews", "retry"} :
         LET loaded == load_checkpoint(ckptFile) IN
         peer' = [pc |-> "run", kind |-> k, checkpoint |-> loaded,
                  processed_ids |-> IF k = "products" THEN loaded.products ELSE loaded.reviews,
                  rows |-> IF k = "products" THEN IdsOf(QueryProducts)
                           ELSE IF k = "reviews" THEN IdsOf(QueryReviews)
                           ELSE PendingFromDb,
                  pos |-> 1, success_count |-> 0, failed_log |-> <<>>, persisted |-> {}]
    /\ UNCHANGED <<store, pc, kind, args, runs, local, client>>

\* one iteration of the loop of the second process: the Embedding Client
\* fails after its last attempt ("embed"), the Index Writer fails ("write")
\* or both succeed ("ok"); its save_checkpoint calls return
PeerRow ==
    /\ peer.pc = "run" /\ peer.pos <= Len(peer.rows)
    /\ LET id == peer.rows[peer.pos]
           k == peer.kind
           moved == [peer EXCEPT !.pos = @ + 1]
           skipped == IF k = "products" THEN AlreadyProcessed(id, peer.processed_ids)
                      ELSE IF k = "reviews"
                      THEN AlreadyProcessed(id, peer.processed_ids)
                           \/ NoContents(ReviewText(reviews[id]))
                      ELSE NoContents(ReviewText(reviews[id]))
       IN
       IF skipped
       THEN peer' = moved /\ UNCHANGED <<ckptFile, index>>
       ELSE \E outcome \in {"ok", "embed", "write"} :
            IF outcome = "embed" /\ k = "reviews"
            THEN /\ peer' = [moved EXCEPT !.failed_log =
                                 LogFailure(@, id, ErrorMessage(EmbedRetry), ReviewText(reviews[id]))]
                 /\ UNCHANGED <<ckptFile, index>>
            ELSE IF outcome # "ok" \/ (k = "products" /\ ~products[id].product_no.numeric)
            THEN peer' = moved /\ UNCHANGED <<ckptFile, index>>
            ELSE LET marked == MarkProcessed(peer.processed_ids, id, TRUE)
                     count == peer.success_count + 1
                     due == IF k = "products" THEN FlushDue(count, ProductFlushEvery)
                            ELSE IF k = "reviews" THEN FlushDue(count, ReviewFlushEvery)
                            ELSE TRUE
                     dict == WithList(peer.checkpoint, k, marked)
                     point == IF k = "products"
                              THEN ProductPayload(ProductPointId(products[id].product_no),
                                                  products[id], "embedding")
                              ELSE IF k = "reviews"
                              THEN ReviewPayload(ReviewPointId(id), id, "embedding")
                              ELSE RetryPayload(RetryPointId(id), id, "embedding", FALSE)
                 IN
                 /\ index' = Upsert(index, point)
                 /\ ckptFile' = IF due THEN save_checkpoint(dict) ELSE ckptFile
                 /\ peer' = [moved EXCEPT !.processed_ids = marked,
                                          !.success_count = count,
                                          !.checkpoint = IF due THEN dict ELSE @,
                                          !.persisted = IF due THEN marked ELSE @]
    /\ UNCHANGED <<products, reviews, ledgerFile, pc, kind, args, runs, local, client>>

\* the end of the second process: the final flush of a pipeline run, and
\* the ledger of a review run
PeerFinish ==
    /\ peer.pc = "run" /\ peer.pos > Len(peer.rows)
    /\ IF peer.kind = "retry"
       THEN peer' = [peer EXCEPT !.pc = "done"] /\ UNCHANGED <<ckptFile, ledgerFile>>
       ELSE LET dict == WithList(peer.checkpoint, peer.kind, peer.processed_ids) IN
            /\ ckptFile' = save_checkpoint(dict)
            /\ ledgerFile' = IF peer.kind = "reviews"
                             THEN WriteLedger(ledgerFile, peer.failed_log) ELSE ledgerFile
            /\ peer' = [peer EXCEPT !.pc = "done", !.checkpoint = dict,
                                    !.persisted = peer.processed_ids]
    /\ UNCHANGED <<products, reviews, index, pc, kind, args, runs, local, client>>

NextConcurrent ==
    \/ Next
    \/ PeerStart
    \/ PeerRow
    \/ PeerFinish

SpecConcurrent == InitConcurrent /\ [][NextConcurrent]_vars

\* ------------------------------------------------------------ properties
Pipeline == kind \in {"products", "reviews"}
InRun == pc \in {"run", "done"}

\* the persisted set of the running driver's kind
Persisted == IF kind = "products" THEN ckptFile.products ELSE ckptFile.reviews

\* the text the running pipeline driver projects from a row
Text(row) == IF kind = "products" THEN ProductText(row) ELSE ReviewText(row)

\* the identifiers of the rows fetched, and of the rows the loop is past
SourceIds == {rows[i].id : i \in 1..Len(rows)}
SeenIds == {rows[i].id : i \in 1..(pos - 1)}
SeenEmpty == {rows[i].id : i \in {j \in 1..(pos - 1) : Text(rows[j]) = <<>>}}

\* the point id the running driver writes an identifier of its kind to
PointIdOf(id) ==
    IF kind = "products" THEN ProductPointId(products[id].product_no)
    ELSE IF kind = "reviews" THEN ReviewPointId(id)
    ELSE RetryPointId(id)

\* C1: a pipeline run with the checkpoint set C loaded and the source S calls
\* the Embedding Client and the Index Writer only for identifiers of S \ C;
\* every identifier of S in C the loop is past is one skip and stays in the
\* set, and every other one with content went to the Embedding Client
Resumability ==
    (InRun /\ Pipeline) =>
        /\ embedCalls \subseteq SourceIds \ loaded_ids
        /\ writeCalls \subseteq SourceIds \ loaded_ids
        /\ (SeenIds \ loaded_ids) \ SeenEmpty \subseteq embedCalls
        /\ skip_count = Cardinality(SeenIds \cap loaded_ids)
                          + Cardinality(SeenEmpty \ loaded_ids)
        /\ loaded_ids \subseteq processed_ids

\* a second run that found 10 in the checkpoint, skipped it and processed 20 and 30
ResumedRun ==
    /\ pc = "done" /\ Pipeline
    /\ loaded_ids = {10} /\ SourceIds = {10, 20, 30}
    /\ skip_count = 1 /\ embedCalls = {20, 30}

\* C2: when a pipeline run is interrupted, the checkpoint file holds every
\* identifier the run had marked done (the interruption path flushes)
InterruptFlushesCheckpoint ==
    [][(pc = "run" /\ Pipeline /\ pc' = "interrupted")
          => processed_ids \subseteq (IF kind = "products" THEN ckptFile'.products
                                      ELSE ckptFile'.reviews)]_vars

Scenario(k) ==
    /\ pc = "done" /\ kind = k
    /\ [i \in 1..Len(rows) |-> rows[i].id] = <<10, 20, 30>>
    /\ loaded_ids = {}
    /\ embedCalls = {10, 20, 30} /\ embedOk = {10, 30}
    /\ writeCalls = {10, 30} /\ writeOk = {10, 30}

LedgerIds(file) == [i \in 1..Len(file.entries) |-> file.entries[i].review_id]

Summary(success, fail, skip) ==
    success_count = success /\ fail_count = fail /\ skip_count = skip

InRange(q) == IF q.type = "product" THEN q.src >= 0 /\ q.src < ReviewOffset ELSE q.src >= 0

\* C5: a point written for an identifier in its valid range never replaces
\* the point of another (kind, identifier) in its valid range, and a review
\* point has the same id whichever driver wrote it
IdentityCollisionFree ==
    [][\A q \in index' \ index :
          /\ InRange(q) =>
                \A o \in index : (o.id = q.id /\ InRange(o)) => (o.type = q.type /\ o.src = q.src)
          /\ q.type = "review" =>
                (q.id = ReviewPointId(q.src) /\ q.id = RetryPointId(q.src))
          /\ q.type = "product" => q.id = q.src]_vars

\* an index holding the point of a product and the point, written by the
\* recovery driver, of the review of the same number
BothKindsIndexed ==
    \E p, t \in index :
        /\ p.type = "product" /\ InRange(p)
        /\ t.type = "review" /\ t.contents = None /\ InRange(t)
        /\ p.src = t.src /\ p.id # t.id

\* C6: no product point is ever stored under the point id of a review of
\* the source (an unsafe product_no is refused before anything is written)
NoCollidingPoint ==
    \A q \in index :
        q.type = "product" => \A r \in DOMAIN reviews : q.id # ReviewPointId(r)

\* the identifiers whose embedding, and whose index write, failed in the run
EmbedFailed == embedCalls \ embedOk
WriteFailed == writeCalls \ writeOk

InLedger(id) == \E i \in 1..Len(ledgerFile.entries) : ledgerFile.entries[i].review_id = id

WriteFailureIsolated ==
    (InRun /\ Pipeline) =>
        /\ WriteFailed \cap processed_ids = {}
        /\ WriteFailed \cap Persisted = {}
        /\ fail_count = Cardinality(embedCalls \ writeOk)
        /\ success_count + skip_count + fail_count = pos - 1
        /\ (pc = "done" => pos = Len(rows) + 1)

\* a finished run whose write of 10 failed and which then wrote 30
WriteFailedThenWent ==
    /\ pc = "done" /\ Pipeline
    /\ 10 \in WriteFailed /\ 30 \in writeOk
    /\ fail_count = 1

\* C9: a row of a pipeline run whose projected text is empty is never sent
\* to the Embedding Client or the Index Writer, is not added to the run's set
\* or log, and is counted as a skip and not as a failure
EmptyContentSkipped ==
    (InRun /\ Pipeline) =>
        /\ SeenEmpty \cap (embedCalls \cup writeCalls) = {}
        /\ SeenEmpty \cap (processed_ids \ loaded_ids) = {}
        /\ \A i \in 1..Len(failed_log) : failed_log[i].review_id \notin SeenEmpty
        /\ \A q \in index : q.type = "review" => q.src \notin SeenEmpty
        /\ skip_count >= Cardinality(SeenEmpty)
        /\ fail_count = Cardinality(SeenIds \ (SeenEmpty \cup loaded_ids \cup writeOk))

\* a review run past a review without content that no checkpoint held
EmptyReviewSkipped ==
    /\ InRun /\ kind = "reviews"
    /\ 10 \in SeenEmpty \ loaded_ids
    /\ skip_count = 1

\* C10: in a recovery run every pending identifier whose review exists with
\* content goes to the Embedding Client; when that fails, with fallback it
\* still goes to the Index Writer, and once written its point carries the
\* fallback vector and the flag and the identifier is in the checkpoint;
\* without fallback it is neither written nor added. A point carries the
\* flag exactly when its vector is the fallback vector
FallbackSubstitution ==
    /\ (InRun /\ kind = "retry") =>
          /\ \A id \in SeenIds :
                (id \in DOMAIN reviews /\ ReviewText(reviews[id]) # <<>>)
                    => id \in embedCalls
          /\ args.fallback =>
                \A id \in EmbedFailed :
                    /\ id \in writeCalls
                    /\ id \in writeOk =>
                          /\ id \in processed_ids /\ id \in ckptFile.reviews
                          /\ \E q \in index :
                                /\ q.id = RetryPointId(id) /\ q.src = id
                                /\ q.vector = "FALLBACK_VECTOR" /\ q.embedding_fallback
          /\ ~args.fallback =>
                \A id \in EmbedFailed :
                    id \notin writeCalls /\ id \notin processed_ids \ loaded_ids
    /\ \A q \in index : q.embedding_fallback <=> q.vector = "FALLBACK_VECTOR"

\* a finished recovery run with fallback in which every embedding failed
\* and a fallback point was written
FallbackWritten ==
    /\ pc = "done" /\ kind = "retry" /\ args.fallback
    /\ embedCalls # {} /\ embedOk = {}
    /\ writeOk # {}

\* the number of the first request of a call that did not raise, or one more
\* than the requests answered
RECURSIVE FirstNotRaising(_, _)
FirstNotRaising(outcomes, k) ==
    IF k > Len(outcomes) \/ outcomes[k] # "err" THEN k
    ELSE FirstNotRaising(outcomes, k + 1)

Min(a, b) == IF a < b THEN a ELSE b

\* C11: one call of generate_embedding sends at most 3 requests; it sends
\* the next one exactly after a request that raised and was not the third,
\* having slept 1 and then 2 seconds; a first response with a vector ends
\* the call with (vector, None); when the third request raised too the call
\* returns (None, message of the third error); it always returns a pair
GenerateEmbeddingBounded ==
    reply.fn = "generate_embedding" =>
        LET k == FirstNotRaising(service.embed, 1) IN
        /\ reply.attempts <= EmbedRetry
        /\ reply.attempts = Min(k, EmbedRetry)
        /\ reply.slept = [j \in 1..(reply.attempts - 1) |-> 2 ^ (j - 1)]
        /\ (k <= EmbedRetry /\ service.embed[k] = "ok") =>
              (reply.vector = "embedding" /\ reply.error = None)
        /\ k > EmbedRetry =>
              (reply.vector = None /\ reply.error = ErrorMessage(EmbedRetry))
        /\ (reply.vector = None) # (reply.error = None)

\* a call whose first two requests raised and whose third returned a vector
EmbeddedAtThirdAttempt ==
    /\ reply.fn = "generate_embedding"
    /\ service.embed = <<"err", "err", "ok">>
    /\ reply.attempts = 3 /\ reply.slept = <<1, 2>> /\ reply.vector = "embedding"

\* C12: one call of save_to_qdrant sends at most 3 PUTs, one second apart;
\* it returns True at the first PUT that succeeded, without another one, and
\* False exactly when the three PUTs failed
SaveToQdrantBounded ==
    reply.fn = "save_to_qdrant" =>
        LET k == FirstNotRaising(service.put, 1) IN
        /\ reply.attempts <= QdrantRetry
        /\ reply.attempts = Min(k, QdrantRetry)
        /\ reply.slept = [j \in 1..(reply.attempts - 1) |-> 1]
        /\ reply.ok <=> k <= QdrantRetry
        /\ ~reply.ok <=> \A j \in 1..QdrantRetry : service.put[j] = "err"

\* a call whose first PUT failed and whose second succeeded
SavedAtSecondAttempt ==
    /\ reply.fn = "save_to_qdrant"
    /\ service.put = <<"err", "ok", "err">>
    /\ reply.ok /\ reply.attempts = 2 /\ reply.slept = <<1>>

\* the points the drivers write for the rows of the source
CandidatePoints ==
    {ProductPayload(ProductPointId(products[i].product_no), products[i], "embedding") :
        i \in {j \in DOMAIN products : products[j].product_no.numeric}}
    \cup {ReviewPayload(ReviewPointId(i), i, "embedding") : i \in DOMAIN reviews}
    \cup {RetryPayload(RetryPointId(i), i, "FALLBACK_VECTOR", TRUE) : i \in DOMAIN reviews}

\* the identifiers of the rows fetched whose projected text is not empty
ContentIds == {rows[i].id : i \in {j \in 1..Len(rows) : Text(rows[j]) # <<>>}}

KindType == IF kind = "products" THEN "product" ELSE "review"

\* C13: a second upsert of a point changes nothing, the index never holds
\* two points of one id, and a pipeline run that is done without a failure
\* leaves the checkpoint set and the point ids of an uninterrupted run (every
\* record with content, once), whether or not some of its points were in the
\* index already, written by a run that ended before persisting them
IdempotentRewrite ==
    /\ \A q \in index \cup CandidatePoints :
          /\ Upsert(Upsert(index, q), q) = Upsert(index, q)
          /\ q \in index => Upsert(index, q) = index
    /\ \A p, q \in index : p.id = q.id => p = q
    /\ (pc = "done" /\ Pipeline /\ fail_count = 0) =>
          /\ Persisted = ContentIds
          /\ {PointIdOf(id) : id \in ContentIds} \subseteq PointIdsOf(index)
          /\ (\A q \in index : q.type = KindType) =>
                PointIdsOf(index) = {PointIdOf(id) : id \in ContentIds}

\* a review run, done without a failure, that found no checkpoint and wrote
\* again the point of review 10, which an earlier pipeline run had written
RewrittenOnResume ==
    /\ pc = "done" /\ kind = "reviews" /\ fail_count = 0
    /\ loaded_ids = {} /\ 10 \in rewritten
    /\ \A q \in index : q.type = "review" /\ q.contents = "preview"
    /\ Cardinality(index) = Cardinality(ContentIds)
    /\ ckptFile.reviews = ContentIds

\* a step that starts process_products or process_reviews
StartsPipeline == runs' = runs + 1 /\ kind' \in {"products", "reviews"}

\* C14: a pipeline run started on a checkpoint file that is not JSON aborts;
\* a run that aborts (on that, or on the failed query of the rows) has called
\* no client and leaves the checkpoint file, the ledger and the index as they
\* were; a run started without a checkpoint file either aborts on the query
\* or runs with empty sets loaded
SourceFailureFatal ==
    [][/\ (StartsPipeline /\ ckptFile.exists /\ ckptFile.corrupt) => pc' = "aborted"
       /\ pc' = "aborted" =>
             /\ ckptFile' = ckptFile /\ ledgerFile' = ledgerFile /\ index' = index
             /\ embedCalls' = {} /\ writeCalls' = {}
       /\ (StartsPipeline /\ ~ckptFile.exists) =>
             \/ pc' = "aborted"
             \/ /\ pc' = "run"
                /\ loaded_ids' = {} /\ processed_ids' = {}
                /\ checkpoint' = [products |-> {}, reviews |-> {}]
       /\ (ckptFile.exists /\ ckptFile.corrupt) => ckptFile' = ckptFile]_vars

\* a review run that aborted on its query with reviews in the checkpoint file
AbortedOnQuery ==
    /\ pc = "aborted" /\ kind = "reviews"
    /\ ckptFile.exists /\ ~ckptFile.corrupt /\ ckptFile.reviews # {}
    /\ embedCalls = {} /\ writeCalls = {}

\* the flush period of the running pipeline driver
FlushEvery == IF kind = "products" THEN ProductFlushEvery ELSE ReviewFlushEvery

\* the identifiers of the run's set that the checkpoint file does not hold
Unpersisted == processed_ids \ Persisted

\* every row the loop is past was counted once: no periodic flush of the run
\* raised (a flush that raised leaves its row counted twice, see C22)
CountedOnce == success_count + skip_count + fail_count = pos - 1

CheckpointAppendOnly ==
    [][/\ ckptFile.products \subseteq ckptFile'.products
       /\ ckptFile.reviews \subseteq ckptFile'.reviews
       /\ ckptFile.exists => ckptFile'.exists]_vars

\* a run that is done after it wrote the checkpoint file, which holds a
\* review that the table no longer has and a review the run added
KeptAfterDeletion ==
    /\ pc = "done" /\ kind \in {"reviews", "retry"}
    /\ ckptFile.reviews \ DOMAIN reviews # {}
    /\ processed_ids \ loaded_ids # {}
    /\ ckptFile.reviews = processed_ids

InEmbedFailed(id) == id \in EmbedFailed

\* the reviews whose embedding failed in the run, in the order of the rows
EmbedFailedInOrder == SelectSeq([i \in 1..Len(rows) |-> rows[i].id], InEmbedFailed)

\* C17: when a review run is done the ledger file holds exactly the reviews
\* whose embedding failed in that run, in the order they were processed (so
\* none when there was no such failure, whatever an earlier run left)
LedgerRebuiltEachRun ==
    (pc = "done" /\ kind = "reviews") => LedgerIds(ledgerFile) = EmbedFailedInOrder

RowIds == [i \in 1..Len(rows) |-> rows[i].id]

\* C18: in a recovery run with --from-db the pending identifiers are the
\* reviews of the source with contents that the checkpoint file did not hold
\* at the start, in ascending order and each once: so every such review
\* whose point was never written is pending and no checkpointed one is; the
\* loop takes them in that order, each row it is past counted once
SourceDiffComplete ==
    (InRun /\ kind = "retry" /\ args.from_db) =>
        /\ SourceIds = ReviewsWithContents \ loaded_ids
        /\ \A i, j \in 1..Len(rows) : i < j => RowIds[i] < RowIds[j]
        /\ \A id \in ReviewsWithContents :
              ReviewPointId(id) \notin PointIdsOf(index) => id \in SourceIds
        /\ SourceIds \cap loaded_ids = {}
        /\ success_count + fail_count = pos - 1
        /\ embedCalls \subseteq SeenIds
        /\ (pc = "done" => pos = Len(rows) + 1)

\* a recovery run with --from-db, done, that found review 10 in the
\* checkpoint and took 20 and 30, writing one of them
PendingTaken ==
    /\ pc = "done" /\ kind = "retry" /\ args.from_db
    /\ loaded_ids = {10} /\ RowIds = <<20, 30>>
    /\ success_count = 1 /\ fail_count = 1

\* C19: in a recovery run the reviews of the checkpoint file are the run's
\* set in every state between two items, every success of the run among
\* them, so that an interruption there, which leaves the file as it is,
\* loses none
RecoveryMergesImmediately ==
    (InRun /\ kind = "retry" /\ rows # <<>>) =>
        /\ ckptFile.exists => ckptFile.reviews = processed_ids
        /\ ~ckptFile.exists => processed_ids = {}
        /\ writeOk \subseteq ckptFile.reviews

\* a recovery run between its second and its third item, with a success
\* and a failed write behind it
MergedBetweenItems ==
    /\ pc = "run" /\ kind = "retry" /\ pos = 3 /\ Len(rows) = 3
    /\ Cardinality(writeOk) = 1 /\ Cardinality(WriteFailed) = 1
    /\ writeOk \subseteq ckptFile.reviews

CounterConservation ==
    (pc = "done" /\ Pipeline) => success_count + skip_count + fail_count = Len(rows)

\* the list of a checkpoint dict that a driver of kind k does not write to
OtherList(dict, k) == IF k = "products" THEN dict.reviews ELSE dict.products

\* what the checkpoint file holds is what the dict holds
FileIs(file, dict) == file.products = dict.products /\ file.reviews = dict.reviews

\* C21: nothing locks the checkpoint file: a process loads it once, at the
\* start of its run (the list of the other kind in its dict stays as
\* loaded), and every write of the file makes it the writer's whole dict,
\* whatever the file held; while the second process has not started no
\* identifier leaves the file
WholeFileOverwrite ==
    [][/\ ckptFile' # ckptFile =>
            \/ peer' = peer /\ pc' \in {"run", "done"} /\ FileIs(ckptFile', checkpoint')
            \/ peer' # peer /\ FileIs(ckptFile', peer'.checkpoint)
       /\ (pc = "run" /\ pc' \in {"run", "done"}) =>
            OtherList(checkpoint', kind) = OtherList(checkpoint, kind)
       /\ (peer.pc = "run" /\ peer'.pc \in {"run", "done"}) =>
            OtherList(peer'.checkpoint, peer.kind) = OtherList(peer.checkpoint, peer.kind)
       /\ peer'.pc = "idle" =>
            /\ ckptFile.products \subseteq ckptFile'.products
            /\ ckptFile.reviews \subseteq ckptFile'.reviews]_vars

\* a product run of the second process flushed its identifiers while a review
\* run of the script was going on, and the final flush of the review run
\* removed them from the file
LostUpdate ==
    /\ pc = "done" /\ kind = "reviews"
    /\ peer.pc = "done" /\ peer.kind = "products"
    /\ peer.persisted = {10, 20, 30}
    /\ ckptFile.products \cap peer.persisted = {}
    /\ ckptFile.reviews = processed_ids /\ processed_ids # {}

\* C23: no step of a product run changes the set of reviews of the
\* checkpoint file, and no step of a review run or of a recovery run changes
\* its set of products; under --all the review run starts from the file the
\* product run left, so its flushes keep every product identifier
CrossKindFrame ==
    [][/\ kind = "products" => ckptFile'.reviews = ckptFile.reviews
       /\ kind \in {"reviews", "retry"} => ckptFile'.products = ckptFile.products
       /\ (pc = "done" /\ kind = "products" /\ args.review /\ pc' = "run")
            => checkpoint'.products = processed_ids]_vars

\* both kinds were run by one --all invocation: the review run flushed its
\* identifiers and the three products of the product run are in the file
ReviewsFlushedBesideProducts ==
    /\ pc = "done" /\ kind = "reviews" /\ args.product
    /\ ckptFile.products = {10, 20, 30}
    /\ ckptFile.reviews = processed_ids /\ success_count > 0

\* the product points of the index
ProductPoints == {q \in index : q.type = "product"}

\* C24: after a product run the index holds as many product points as the
\* checkpoint file holds product identifiers (every checkpointed product
\* record has an index point of its own)
DistinctProductPoints ==
    (pc = "done" /\ kind = "products") =>
        Cardinality(ProductPoints) = Cardinality(ckptFile.products)

\* C25: a pipeline run whose client calls return gets to its final flush and
\* summary: it is done with every row behind it and its set in the file; a
\* call of the Embedding Client sends at most 3 requests and a call of the
\* Index Writer at most 3 PUTs; and a record goes to the clients once in a
\* run (a step that counts a row moves on to the next row, and calls the
\* clients only for a row not called for before)
RunTerminates ==
    /\ ((pc = "run" /\ Pipeline) ~> (pc = "done" /\ Pipeline))
    /\ []((pc = "done" /\ Pipeline) =>
            /\ pos = Len(rows) + 1
            /\ ckptFile.exists /\ Persisted = processed_ids
            /\ embedCalls \cup {rows[i].id : i \in {j \in 1..Len(rows) : rows[j].id \in loaded_ids}}
                 \cup {rows[i].id : i \in {j \in 1..Len(rows) : Text(rows[j]) = <<>>}}
                 = SourceIds)
    /\ [](/\ \A e \in EmbeddingResults : e.attempts \in 1..3
          /\ \A w \in SaveResults : w.attempts \in 1..3)
    /\ [][(pc = "run" /\ pc' = "run" /\ Pipeline /\ counters' # counters) =>
            /\ pos' = pos + 1
            /\ embedCalls' # embedCalls =>
                 (rows[pos].id \notin embedCalls /\ embedCalls' = embedCalls \cup {rows[pos].id})
            /\ writeCalls' # writeCalls =>
                 (rows[pos].id \notin writeCalls /\ writeCalls' = writeCalls \cup {rows[pos].id})]_vars

\* a review run done over three rows: the embedding of one failed after its
\* last attempt, the write of another failed, the third was written
DoneDespiteFailures ==
    /\ pc = "done" /\ kind = "reviews" /\ Len(rows) = 3
    /\ Cardinality(EmbedFailed) = 1 /\ Cardinality(WriteFailed) = 1
    /\ success_count = 1 /\ fail_count = 2
    /\ ckptFile.reviews = processed_ids

====
